---- MODULE Spec2Model ----
(***************************************************************************)
(* Model of src/src/tools/qgepnetwork.py: QgepGraphManager, the manager of *)
(* the directed graph of a wastewater network.                             *)
(*                                                                         *)
(* The manager is single threaded: every public method runs to completion  *)
(* (or to the exception that leaves it), so each method is one action.     *)
(* The two layers are external objects; what their data providers return   *)
(* (the content of the two materialized views) is the state of the         *)
(* environment, nodeSrc and reachSrc.  A record's feature id is its        *)
(* position in the layer.  The profiling list `timings` grows without      *)
(* bound and is read by no other code; it is left out (_profile is taken   *)
(* to return: time.clock() exists in the Python 3 releases before 3.8).    *)
(* REFRESH MATERIALIZED VIEW is the one place where the content of a view  *)
(* changes.                                                                *)
(***************************************************************************)
EXTENDS Integers, Sequences, FiniteSets, TLC

\* Bounds of the model: records per node layer and per reach layer.
MaxNodes == 2
MaxEdges == 2

\* Python's None, as the value of a layer reference.
None == "None"

\* The layer objects of the project and their ids (layer.id()).
NodeLayerRef == "vw_network_node"
ReachLayerRef == "vw_network_segment"
LayerId(layer) == IF layer = NodeLayerRef THEN 1 ELSE 2

\* Domains of the record attributes.
ObjIds == {"a", "b"}
NodeTypes == {"wastewater_node"}
ReachObjIds == {"r"}
ReachTypes == {"reach"}
Lengths == {1}

\* A node record: obj_id, type, and whether feat.geometry().asPoint() works.
NodeRecords == [obj_id : ObjIds, type : NodeTypes, hasGeometry : BOOLEAN]
\* A reach record.
ReachRecords == [obj_id : ReachObjIds, type : ReachTypes, from_obj_id : ObjIds,
                 to_obj_id : ObjIds, length_calc : Lengths]

NodeSources == UNION {[1..k -> NodeRecords] : k \in 0..MaxNodes}
ReachSources == UNION {[1..k -> ReachRecords] : k \in 0..MaxEdges}

\* feat.geometry().asPoint() of the record with feature id fid: every record
\* has a point of its own.  Unbound is the local `vertex` before its first
\* assignment.
PointOf(fid) == <<fid>>
Unbound == <<>>

VARIABLES
    nodeSrc,       \* records the node layer's data provider returns
    reachSrc,      \* records the reach layer's data provider returns
    reachLayer, reachLayerId, nodeLayer, nodeLayerId,
    dirty,
    graph,         \* [exists, node, edge]: exists = FALSE is graph = None
    vertexIds,     \* str(obj_id) -> feature id
    messageBar,    \* messages pushed by the last operation
    outcome,       \* the last operation: what ran and what it returned
    args,          \* the arguments of the last query or accessor call
    cache          \* a QgepFeatureCache: [featuresById, featuresByObjId]

vars == <<nodeSrc, reachSrc, reachLayer, reachLayerId, nodeLayer, nodeLayerId,
          dirty, graph, vertexIds, messageBar, outcome, args, cache>>

\* The fields of the manager and the two views.
managerVars == <<nodeSrc, reachSrc, reachLayer, reachLayerId, nodeLayer, nodeLayerId,
                 dirty, graph, vertexIds, messageBar>>

\* Arguments of a query: (start_point, end_point) or (node, reverse).
Args(node, target, reverse) == [node |-> node, target |-> target, reverse |-> reverse]
NoArgs == Args(0, 0, FALSE)

\* QgepFeatureCache.__init__: two empty dictionaries
EmptyCache == [featuresById |-> <<>>, featuresByObjId |-> <<>>]

\* graph = None (class attribute) and nx.DiGraph()
NoGraph == [exists |-> FALSE, node |-> <<>>, edge |-> <<>>]
EmptyGraph == [exists |-> TRUE, node |-> <<>>, edge |-> <<>>]

\* graph.add_node(fid, **attrs): insert or overwrite
add_node(g, fid, attrs) ==
    [g EXCEPT !.node = (fid :> attrs) @@ g.node]

\* graph.add_edge(u, v, **attrs): insert or overwrite the edge (u, v); an
\* endpoint that is no node yet becomes a node without attributes.
NoAttrs == [point |-> Unbound, objType |-> "", objId |-> ""]
\* An add_edge that keeps the attributes of an edge that is there already.
add_edgeKeepsFirst(g, u, v, attrs) ==
    [g EXCEPT !.edge = g.edge @@ (<<u, v>> :> attrs),
              !.node = g.node @@ (u :> NoAttrs) @@ (v :> NoAttrs)]

add_edge(g, u, v, attrs) ==
    [g EXCEPT !.edge = (<<u, v>> :> attrs) @@ g.edge,
              !.node = g.node @@ (u :> NoAttrs) @@ (v :> NoAttrs)]

\* for feat in features (lines 121-134), from record i on.  `vertex` is the
\* loop's local: it keeps the value of the last record whose geometry could
\* be read, and reading it before any assignment raises UnboundLocalError.
RECURSIVE addVerticesLoop(_, _, _, _, _)
addVerticesLoop(features, i, g, vids, vertex) ==
    IF i > Len(features)
    THEN [graph |-> g, vertexIds |-> vids, raised |-> FALSE]
    ELSE LET feat == features[i]
             fid == i
             v == IF feat.hasGeometry THEN PointOf(fid) ELSE vertex
         IN  IF v = Unbound
             THEN [graph |-> g, vertexIds |-> vids, raised |-> TRUE]
             ELSE addVerticesLoop(features, i + 1,
                      add_node(g, fid, [point |-> v, objType |-> feat.type,
                                        objId |-> feat.obj_id]),
                      (feat.obj_id :> fid) @@ vids, v)

\* _addVertices: self.nodeLayer.dataProvider() raises AttributeError when no
\* node layer is assigned.
addVertices(layer, features, g, vids) ==
    IF layer = None
    THEN [graph |-> g, vertexIds |-> vids, raised |-> TRUE]
    ELSE addVerticesLoop(features, 1, g, vids, Unbound)

\* self.vertexIds[from_obj_id], self.vertexIds[to_obj_id] both succeed
Resolves(vids, feat) ==
    feat.from_obj_id \in DOMAIN vids /\ feat.to_obj_id \in DOMAIN vids

\* for feat in features (lines 148-164), from record i on: a KeyError of the
\* index lookup is caught and the record skipped.
RECURSIVE addEdgesLoop(_, _, _, _)
addEdgesLoop(features, i, g, vids) ==
    IF i > Len(features)
    THEN g
    ELSE LET feat == features[i]
         IN  IF Resolves(vids, feat)
             THEN addEdgesLoop(features, i + 1,
                      add_edge(g, vids[feat.from_obj_id], vids[feat.to_obj_id],
                               [weight |-> feat.length_calc, feature |-> i,
                                baseFeature |-> feat.obj_id, objType |-> feat.type]),
                      vids)
             ELSE addEdgesLoop(features, i + 1, g, vids)

\* An _addEdges that returns at once when no reach layer is assigned.
addEdgesSkipsWithoutLayer(layer, features, g, vids) ==
    IF layer = None
    THEN [graph |-> g, raised |-> FALSE]
    ELSE [graph |-> addEdgesLoop(features, 1, g, vids), raised |-> FALSE]

\* _addEdges: self.reachLayer.dataProvider() raises AttributeError when no
\* reach layer is assigned.
addEdges(layer, features, g, vids) ==
    IF layer = None
    THEN [graph |-> g, raised |-> TRUE]
    ELSE [graph |-> addEdgesLoop(features, 1, g, vids), raised |-> FALSE]

\* createGraph without line 221: the index of the build before stays.
createGraphKeepsIndex(nl, rl, nodes, reaches) ==
    LET av == addVertices(nl, nodes, EmptyGraph, vertexIds)
        ae == addEdges(rl, reaches, av.graph, av.vertexIds)
    IN  IF av.raised
        THEN [graph |-> av.graph, vertexIds |-> av.vertexIds,
              built |-> "addVertices raised", cleared |-> FALSE]
        ELSE IF ae.raised
        THEN [graph |-> ae.graph, vertexIds |-> av.vertexIds,
              built |-> "addEdges raised", cleared |-> FALSE]
        ELSE [graph |-> ae.graph, vertexIds |-> av.vertexIds,
              built |-> "done", cleared |-> TRUE]

\* createGraph that assigns the new index after the edge phase: the reaches are
\* resolved against the index of the build before.
createGraphStaleIndex(nl, rl, nodes, reaches) ==
    LET av == addVertices(nl, nodes, EmptyGraph, <<>>)
        ae == addEdges(rl, reaches, av.graph, vertexIds)
    IN  IF av.raised
        THEN [graph |-> av.graph, vertexIds |-> av.vertexIds,
              built |-> "addVertices raised", cleared |-> FALSE]
        ELSE IF ae.raised
        THEN [graph |-> ae.graph, vertexIds |-> av.vertexIds,
              built |-> "addEdges raised", cleared |-> FALSE]
        ELSE [graph |-> ae.graph, vertexIds |-> av.vertexIds,
              built |-> "done", cleared |-> TRUE]

\* createGraph with `self.dirty = False` moved in front of the two phases.
createGraphClearsFirst(nl, rl, nodes, reaches) ==
    LET av == addVertices(nl, nodes, EmptyGraph, <<>>)
        ae == addEdges(rl, reaches, av.graph, av.vertexIds)
    IN  IF av.raised
        THEN [graph |-> av.graph, vertexIds |-> av.vertexIds,
              built |-> "addVertices raised", cleared |-> TRUE]
        ELSE IF ae.raised
        THEN [graph |-> ae.graph, vertexIds |-> av.vertexIds,
              built |-> "addEdges raised", cleared |-> TRUE]
        ELSE [graph |-> ae.graph, vertexIds |-> av.vertexIds,
              built |-> "done", cleared |-> TRUE]

\* createGraph: new index, new graph, the two builder phases, then
\* dirty = False.  `built` tells how far it got and `cleared` whether line 232
\* ran: an exception of a phase leaves what was assigned so far and the flag
\* as it was.
createGraph(nl, rl, nodes, reaches) ==
    LET av == addVertices(nl, nodes, EmptyGraph, <<>>)
        ae == addEdges(rl, reaches, av.graph, av.vertexIds)
    IN  IF av.raised
        THEN [graph |-> av.graph, vertexIds |-> av.vertexIds,
              built |-> "addVertices raised", cleared |-> FALSE]
        ELSE IF ae.raised
        THEN [graph |-> ae.graph, vertexIds |-> av.vertexIds,
              built |-> "addEdges raised", cleared |-> FALSE]
        ELSE [graph |-> ae.graph, vertexIds |-> av.vertexIds,
              built |-> "done", cleared |-> TRUE]

\* What an operation leaves in `outcome`.
Outcome(op, status, built, path, edges) ==
    [op |-> op, status |-> status, built |-> built, path |-> path, edges |-> edges]

Status(cg) == IF cg.built = "done" THEN "ok" ELSE "raise"

\* `or` in the place of `and` at lines 92 and 109.
EitherLayer(nl, rl) == nl # None \/ rl # None

\* if self.nodeLayer and self.reachLayer
BothLayers(nl, rl) == nl # None /\ rl # None

Init ==
    /\ nodeSrc \in NodeSources
    /\ reachSrc \in ReachSources
    /\ reachLayer = None /\ reachLayerId = -1
    /\ nodeLayer = None /\ nodeLayerId = -1
    /\ dirty = TRUE
    /\ graph = NoGraph
    /\ vertexIds = <<>>
    /\ messageBar = <<>>
    /\ outcome = Outcome("init", "ok", "none", <<>>, <<>>)
    /\ args = NoArgs
    /\ cache = EmptyCache

\* The part of setReachLayer / setNodeLayer after the assignments: the eager
\* rebuild once both layers are assigned.
AfterSetLayer(op, nl, rl) ==
    IF BothLayers(nl, rl)
    THEN LET cg == createGraph(nl, rl, nodeSrc, reachSrc)
         IN  /\ graph' = cg.graph
             /\ vertexIds' = cg.vertexIds
             /\ dirty' = IF cg.cleared THEN FALSE ELSE TRUE
             /\ outcome' = Outcome(op, Status(cg), cg.built, <<>>, <<>>)
    ELSE /\ dirty' = TRUE
         /\ outcome' = Outcome(op, "ok", "none", <<>>, <<>>)
         /\ UNCHANGED <<graph, vertexIds>>

setReachLayer(reach_layer) ==
    /\ reachLayer' = reach_layer
    /\ reachLayerId' = IF reach_layer # None THEN LayerId(reach_layer) ELSE 0
    /\ AfterSetLayer("setReachLayer", nodeLayer, reach_layer)
    /\ messageBar' = <<>>
    /\ args' = NoArgs
    /\ UNCHANGED <<nodeSrc, reachSrc, nodeLayer, nodeLayerId, cache>>

setNodeLayer(node_layer) ==
    /\ nodeLayer' = node_layer
    /\ nodeLayerId' = IF node_layer # None THEN LayerId(node_layer) ELSE 0
    /\ AfterSetLayer("setNodeLayer", node_layer, reachLayer)
    /\ messageBar' = <<>>
    /\ args' = NoArgs
    /\ UNCHANGED <<nodeSrc, reachSrc, reachLayer, reachLayerId, cache>>

\* The three collaborator calls of refresh: db.open() and the two
\* query.exec_().  A statement on a database that is not open fails.
RefreshResults ==
    {r \in [open : BOOLEAN, segment : BOOLEAN, node : BOOLEAN] :
        ~r.open => (~r.segment /\ ~r.node)}

\* Messages of lines 180-191: the warning of a failed open, then the result of
\* REFRESH MATERIALIZED VIEW qgep_od.vw_network_segment.
SegmentMessages(r) ==
    (IF r.open THEN <<>> ELSE <<"Warning">>)
        \o (IF r.segment THEN <<"Success">> ELSE <<"Warning">>)

\* What a materialized view can show after REFRESH: the tables behind it may
\* have gained a record or lost their last one since the view was filled.
Refreshed(content, Records, max) ==
    {content}
        \cup {Append(content, rec) : rec \in IF Len(content) < max THEN Records ELSE {}}
        \cup (IF content = <<>> THEN {} ELSE {SubSeq(content, 1, Len(content) - 1)})

\* refresh.  A view that was refreshed shows the content of its tables
\* (newReach, newNodes).  Line 173 raises AttributeError without a node layer;
\* line 197 reads QgsMessageBar.CRITICAL, which the QGIS 3 API this module is
\* written against (Qgis.Critical, lines 182 and 188) does not have, so a
\* failed node-view refresh raises AttributeError there; line 202 raises
\* AttributeError while graph is None, and otherwise empties a graph object
\* that createGraph replaces at once.
refresh(r) ==
    /\ args' = NoArgs
    /\ UNCHANGED cache
    /\ IF nodeLayer = None
       THEN /\ outcome' = Outcome("refresh", "raise", "none", <<>>, <<>>)
            /\ messageBar' = <<>>
            /\ UNCHANGED <<nodeSrc, reachSrc, reachLayer, reachLayerId, nodeLayer,
                           nodeLayerId, dirty, graph, vertexIds>>
       ELSE \E newReach \in IF r.segment THEN Refreshed(reachSrc, ReachRecords, MaxEdges)
                                         ELSE {reachSrc},
               newNodes \in IF r.node THEN Refreshed(nodeSrc, NodeRecords, MaxNodes)
                                      ELSE {nodeSrc} :
            /\ reachSrc' = newReach
            /\ nodeSrc' = newNodes
            /\ UNCHANGED <<reachLayer, reachLayerId, nodeLayer, nodeLayerId>>
            /\ IF ~r.node
               THEN /\ messageBar' = SegmentMessages(r)
                    /\ outcome' = Outcome("refresh", "raise", "none", <<>>, <<>>)
                    /\ UNCHANGED <<dirty, graph, vertexIds>>
               ELSE /\ messageBar' = SegmentMessages(r) \o <<"Success">>
                    /\ IF ~graph.exists
                       THEN /\ outcome' = Outcome("refresh", "raise", "none", <<>>, <<>>)
                            /\ UNCHANGED <<dirty, graph, vertexIds>>
                       ELSE LET cg == createGraph(nodeLayer, reachLayer, newNodes, newReach)
                            IN  /\ graph' = cg.graph
                                /\ vertexIds' = cg.vertexIds
                                /\ dirty' = IF cg.cleared THEN FALSE ELSE dirty
                                /\ outcome' = Outcome("refresh", Status(cg), cg.built, <<>>, <<>>)

\* Node ids a caller may pass to a query.
NodeIds == 1..MaxNodes

\* The simple directed paths of g from a to b, as node sequences.
SimplePaths(g, a, b) ==
    {p \in UNION {[1..k -> DOMAIN g.node] : k \in 1..Cardinality(DOMAIN g.node)} :
        /\ p[1] = a /\ p[Len(p)] = b
        /\ \A i, j \in 1..Len(p) : i # j => p[i] # p[j]
        /\ \A i \in 1..(Len(p) - 1) : <<p[i], p[i + 1]>> \in DOMAIN g.edge}

RECURSIVE PathWeightFrom(_, _, _)
PathWeightFrom(g, p, i) ==
    IF i >= Len(p) THEN 0
    ELSE g.edge[<<p[i], p[i + 1]>>].weight + PathWeightFrom(g, p, i + 1)

PathWeight(g, p) == PathWeightFrom(g, p, 1)

\* A path search that ignores the weights: any simple path is a result.
all_simple_paths(g, a, b) == SimplePaths(g, a, b)

\* nx.algorithms.dijkstra_path(graph, a, b): a path of least total weight.
\* Which one among paths of equal weight depends on the order of the heap; all
\* of them are results.  The empty set stands for NetworkXNoPath.
dijkstra_path(g, a, b) ==
    {p \in SimplePaths(g, a, b) :
        \A q \in SimplePaths(g, a, b) : PathWeight(g, p) <= PathWeight(g, q)}

\* line 354: the (u, v, attributes) triple of every consecutive pair of path
PathEdges(g, p) ==
    [i \in 1..(Len(p) - 1) |-> <<p[i], p[i + 1], g.edge[<<p[i], p[i + 1]>>]>>]

\* shortestPath without the except clause of lines 355-356: NetworkXNoPath
\* reaches the caller.
PathResultsNoExcept(op, built, g, start_point, end_point) ==
    IF start_point \notin DOMAIN g.node \/ dijkstra_path(g, start_point, end_point) = {}
    THEN {Outcome(op, "raise", built, <<>>, <<>>)}
    ELSE {Outcome(op, "ok", built, p, PathEdges(g, p)) :
              p \in dijkstra_path(g, start_point, end_point)}

\* shortestPath that takes a path without edges for "no path".
PathResultsNeedsEdge(op, built, g, start_point, end_point) ==
    IF start_point \notin DOMAIN g.node
    THEN {Outcome(op, "raise", built, <<>>, <<>>)}
    ELSE IF start_point = end_point \/ dijkstra_path(g, start_point, end_point) = {}
    THEN {Outcome(op, "ok", built, <<>>, <<>>)}
    ELSE {Outcome(op, "ok", built, p, PathEdges(g, p)) :
              p \in dijkstra_path(g, start_point, end_point)}

\* The query part of shortestPath (lines 352-362) on graph g.  A start point
\* that is no node of the graph makes dijkstra_path raise (NodeNotFound, or
\* KeyError in networkx 2.0), which is not caught.
PathResults(op, built, g, start_point, end_point) ==
    IF start_point \notin DOMAIN g.node
    THEN {Outcome(op, "raise", built, <<>>, <<>>)}
    ELSE IF dijkstra_path(g, start_point, end_point) = {}
    THEN {Outcome(op, "ok", built, <<>>, <<>>)}
    ELSE {Outcome(op, "ok", built, p, PathEdges(g, p)) :
              p \in dijkstra_path(g, start_point, end_point)}

\* The query part of getTree (lines 374-384).  The function named at line 380
\* maps every reached node to the list of its predecessors (the source to []
\* or [None]), so no value of pred is None, the filter of line 381 passes every
\* item, and my_graph[v] looks up a list: TypeError (unhashable type).  A node
\* that is not in the graph raises NodeNotFound before that.
TreeResults(op, built, g, node, reverse) ==
    {Outcome(op, "raise", built, <<>>, <<>>)}

\* if self.dirty: self.createGraph() (lines 349-350, 371-372): what the query
\* finds when it goes on, or the state the exception of the rebuild leaves.
ensureFresh ==
    IF dirty
    THEN createGraph(nodeLayer, reachLayer, nodeSrc, reachSrc)
    ELSE [graph |-> graph, vertexIds |-> vertexIds, built |-> "none", cleared |-> FALSE]

shortestPath(start_point, end_point) ==
    LET cg == ensureFresh
    IN  /\ graph' = cg.graph
        /\ vertexIds' = cg.vertexIds
        /\ dirty' = IF cg.cleared THEN FALSE ELSE dirty
        /\ IF cg.built \in {"none", "done"}
           THEN outcome' \in PathResults("shortestPath", cg.built, cg.graph,
                                         start_point, end_point)
           ELSE outcome' = Outcome("shortestPath", "raise", cg.built, <<>>, <<>>)
        /\ messageBar' = <<>>
        /\ args' = Args(start_point, end_point, FALSE)
        /\ UNCHANGED <<nodeSrc, reachSrc, reachLayer, reachLayerId, nodeLayer,
                       nodeLayerId, cache>>

getTree(node, reverse) ==
    LET cg == ensureFresh
    IN  /\ graph' = cg.graph
        /\ vertexIds' = cg.vertexIds
        /\ dirty' = IF cg.cleared THEN FALSE ELSE dirty
        /\ IF cg.built \in {"none", "done"}
           THEN outcome' \in TreeResults("getTree", cg.built, cg.graph, node, reverse)
           ELSE outcome' = Outcome("getTree", "raise", cg.built, <<>>, <<>>)
        /\ messageBar' = <<>>
        /\ args' = Args(node, 0, reverse)
        /\ UNCHANGED <<nodeSrc, reachSrc, reachLayer, reachLayerId, nodeLayer,
                       nodeLayerId, cache>>

Next ==
    \/ \E l \in {None, ReachLayerRef} : setReachLayer(l)
    \/ \E l \in {None, NodeLayerRef} : setNodeLayer(l)
    \/ \E r \in RefreshResults : refresh(r)
    \/ \E a, b \in NodeIds : shortestPath(a, b)
    \/ \E n \in NodeIds, reverse \in BOOLEAN : getTree(n, reverse)

Spec == Init /\ [][Next]_vars

(***************************************************************************)
(* Queries on a built network.  The node layer holds the three nodes A, B  *)
(* and C (feature ids 1, 2, 3), the reach layer up to MaxQueryEdges        *)
(* reaches of length 1 or 2 between them, self-loops included; both layers *)
(* were assigned, so the graph is built and the flag clear, and the        *)
(* queries follow.                                                         *)
(***************************************************************************)
MaxQueryEdges == 3

QueryObjIds == <<"A", "B", "C">>
QueryLengths == {1, 2}
QueryNodes ==
    [i \in DOMAIN QueryObjIds |->
        [obj_id |-> QueryObjIds[i], type |-> "wastewater_node", hasGeometry |-> TRUE]]
QueryReachRecords ==
    [obj_id : ReachObjIds, type : ReachTypes,
     from_obj_id : {QueryObjIds[i] : i \in DOMAIN QueryObjIds},
     to_obj_id : {QueryObjIds[i] : i \in DOMAIN QueryObjIds},
     length_calc : QueryLengths]
\* The reach views of the queried networks list each (from, to) pair at most
\* once, ordered by the pair: the graph built does not depend on that order.
QueryNodeOf(objId) == CHOOSE i \in DOMAIN QueryObjIds : QueryObjIds[i] = objId
QueryPairRank(feat) ==
    Len(QueryObjIds) * QueryNodeOf(feat.from_obj_id) + QueryNodeOf(feat.to_obj_id)
QueryReachSources ==
    {src \in UNION {[1..k -> QueryReachRecords] : k \in 0..MaxQueryEdges} :
        \A i, j \in DOMAIN src : i < j => QueryPairRank(src[i]) < QueryPairRank(src[j])}
QueryNodeIds == DOMAIN QueryObjIds

\* The manager after setNodeLayer and setReachLayer on these two layers.
InitQuery ==
    /\ nodeSrc = QueryNodes
    /\ reachSrc \in QueryReachSources
    /\ nodeLayer = NodeLayerRef /\ nodeLayerId = LayerId(NodeLayerRef)
    /\ reachLayer = ReachLayerRef /\ reachLayerId = LayerId(ReachLayerRef)
    /\ LET cg == createGraph(nodeLayer, reachLayer, nodeSrc, reachSrc)
       IN  /\ graph = cg.graph
           /\ vertexIds = cg.vertexIds
           /\ dirty = ~cg.cleared
           /\ outcome = Outcome("setReachLayer", Status(cg), cg.built, <<>>, <<>>)
    /\ messageBar = <<>>
    /\ args = NoArgs
    /\ cache = EmptyCache

NextQuery ==
    \/ \E a, b \in QueryNodeIds : shortestPath(a, b)
    \/ \E n \in QueryNodeIds, reverse \in BOOLEAN : getTree(n, reverse)

SpecQuery == InitQuery /\ [][NextQuery]_vars

(***************************************************************************)
(* QgepFeatureCache (lines 437-526).  A Python value is a type with its    *)
(* text; a feature is its id and its fields.  The cache belongs to its     *)
(* caller, the manager is not involved and stays as constructed.           *)
(***************************************************************************)
MaxFeatureId == 2

PyValue(type, repr) == [type |-> type, repr |-> repr]
PyNone == PyValue("NoneType", "None")
\* qgis.PyQt.QtCore NULL: the value of a field that is null
NULL == PyValue("QVariant", "NULL")

\* The fields of the features and what they hold: an object id or NULL; a
\* length as a number, as text that is a number, as other text, as a value of
\* a type that is no number, or NULL.
objIdField == "obj_id"
FieldNames == {objIdField, "length_calc"}
AttrNames == FieldNames \cup {"no_such_field"}
CacheObjIdValues == {PyValue("str", "a"), NULL}
CacheLengthValues ==
    {PyValue("float", "2.0"), PyValue("str", "2"), PyValue("str", "abc"),
     PyValue("QDateTime", "2016-01-01"), NULL}

FeatureIds == {PyValue("int", ToString(i)) : i \in 1..MaxFeatureId}
Features ==
    {[id |-> fid, fields |-> [n \in FieldNames |-> IF n = objIdField THEN o ELSE l]] :
        fid \in FeatureIds, o \in CacheObjIdValues, l \in CacheLengthValues}

\* What an accessor of the cache leaves in `outcome`.
Returned(op, value) == [op |-> op, status |-> "ok", value |-> value]
Raised(op, exception) == [op |-> op, status |-> "raise", value |-> PyValue(exception, "")]

\* float(x): a float is itself, text is parsed (ValueError when it is no
\* number), any other type is a TypeError.
ParseFloat == ("2" :> "2.0")
float(x) ==
    CASE x.type = "float" -> [raised |-> "", value |-> x]
      [] x.type = "str" ->
            IF x.repr \in DOMAIN ParseFloat
            THEN [raised |-> "", value |-> PyValue("float", ParseFloat[x.repr])]
            ELSE [raised |-> "ValueError", value |-> PyNone]
      [] OTHER -> [raised |-> "TypeError", value |-> PyNone]

\* attr: feat[attr], None for NULL; feat[attr] raises KeyError for a name that
\* is no field, which is caught (and logged) and gives None.
attr(feat, name) ==
    IF name \notin DOMAIN feat.fields
    THEN PyNone
    ELSE IF feat.fields[name] = NULL THEN PyNone ELSE feat.fields[name]

attrAsUnicode(feat, name) == attr(feat, name)

InitCache ==
    /\ nodeSrc = <<>> /\ reachSrc = <<>>
    /\ reachLayer = None /\ reachLayerId = -1
    /\ nodeLayer = None /\ nodeLayerId = -1
    /\ dirty = TRUE
    /\ graph = NoGraph
    /\ vertexIds = <<>>
    /\ messageBar = <<>>
    /\ outcome = Returned("__init__", PyNone)
    /\ args = NoArgs
    /\ cache = EmptyCache

addFeature(feat) ==
    /\ cache' = [featuresById |-> (feat.id :> feat) @@ cache.featuresById,
                 featuresByObjId |->
                     (attrAsUnicode(feat, objIdField) :> feat) @@ cache.featuresByObjId]
    /\ outcome' = Returned("addFeature", PyNone)
    /\ args' = NoArgs
    /\ UNCHANGED managerVars

featureById(fid) ==
    /\ outcome' = IF fid \in DOMAIN cache.featuresById
                  THEN Returned("featureById", cache.featuresById[fid])
                  ELSE Raised("featureById", "KeyError")
    /\ args' = NoArgs
    /\ UNCHANGED <<managerVars, cache>>

featureByObjId(obj_id) ==
    /\ outcome' = IF obj_id \in DOMAIN cache.featuresByObjId
                  THEN Returned("featureByObjId", cache.featuresByObjId[obj_id])
                  ELSE Raised("featureByObjId", "KeyError")
    /\ args' = NoArgs
    /\ UNCHANGED <<managerVars, cache>>

\* The caller reads the attributes of the features it has cached.
CachedFeatures == {cache.featuresById[fid] : fid \in DOMAIN cache.featuresById}

\* attrAsFloat: only the TypeError of float() is caught.
attrAsFloat(feat, name) ==
    /\ feat \in CachedFeatures
    /\ LET f == float(attr(feat, name))
       IN  outcome' = IF f.raised = "TypeError" THEN Returned("attrAsFloat", PyNone)
                      ELSE IF f.raised = "" THEN Returned("attrAsFloat", f.value)
                      ELSE Raised("attrAsFloat", f.raised)
    /\ args' = [feat |-> feat, attr |-> name]
    /\ UNCHANGED <<managerVars, cache>>

asDict ==
    /\ outcome' = Returned("asDict", cache.featuresById)
    /\ args' = NoArgs
    /\ UNCHANGED <<managerVars, cache>>

\* line 526: return self._featuresById
asObjIdDict ==
    /\ outcome' = Returned("asObjIdDict", cache.featuresById)
    /\ args' = NoArgs
    /\ UNCHANGED <<managerVars, cache>>

NextCache ==
    \/ \E feat \in Features : addFeature(feat)
    \/ \E fid \in FeatureIds : featureById(fid)
    \/ \E o \in CacheObjIdValues \cup {PyNone} : featureByObjId(o)
    \/ \E feat \in Features, name \in AttrNames : attrAsFloat(feat, name)
    \/ asDict
    \/ asObjIdDict

SpecCache == InitCache /\ [][NextCache]_vars

(***************************************************************************)
(* What a complete build of the records `nodes` and `reaches` holds,       *)
(* stated from the records and not by running the builder.                 *)
(***************************************************************************)
ObjIdsOf(nodes) == {nodes[i].obj_id : i \in DOMAIN nodes}

LastWith(nodes, o) ==
    CHOOSE i \in DOMAIN nodes :
        /\ nodes[i].obj_id = o
        /\ \A j \in DOMAIN nodes : nodes[j].obj_id = o => j <= i

ExpectedIndex(nodes) == [o \in ObjIdsOf(nodes) |-> LastWith(nodes, o)]

Resolvable(nodes, reach) ==
    reach.from_obj_id \in ObjIdsOf(nodes) /\ reach.to_obj_id \in ObjIdsOf(nodes)

ExpectedEdges(nodes, reaches) ==
    {<<LastWith(nodes, reaches[i].from_obj_id), LastWith(nodes, reaches[i].to_obj_id)>> :
        i \in {k \in DOMAIN reaches : Resolvable(nodes, reaches[k])}}

IsBuildOf(g, nodes, reaches) ==
    /\ g.exists
    /\ DOMAIN g.node = DOMAIN nodes
    /\ DOMAIN g.edge = ExpectedEdges(nodes, reaches)

QueryOps == {"shortestPath", "getTree"}
SetLayerOps == {"setReachLayer", "setNodeLayer"}
Assigned == BothLayers(nodeLayer, reachLayer)
OneAssigned == (nodeLayer = None) # (reachLayer = None)
\* the last operation ran createGraph
BuildRan == outcome.built # "none"

\* C1: a query called while the dirty flag is set (it then runs createGraph)
\* returns with the flag clear, the graph rebuilt from the assigned layers and
\* its result taken from that graph.
C1_LazyRebuild ==
    (outcome.op \in QueryOps /\ BuildRan) =>
        /\ dirty = FALSE
        /\ Assigned
        /\ IsBuildOf(graph, nodeSrc, reachSrc)
        /\ \A i \in DOMAIN outcome.edges :
              <<outcome.edges[i][1], outcome.edges[i][2]>> \in DOMAIN graph.edge

\* C2: a refresh, in whatever state it was issued, ends with the graph rebuilt
\* from the current layers and the dirty flag clear.
C2_RefreshRebuilds ==
    outcome.op = "refresh" =>
        /\ dirty = FALSE
        /\ IsBuildOf(graph, nodeSrc, reachSrc)

\* C3: a setNodeLayer or setReachLayer that leaves only one of the two layers
\* assigned runs no rebuild: graph and object-id index are as before the call
\* and the dirty flag is set.
C3_OneLayerNoRebuild ==
    [][(outcome'.op \in SetLayerOps /\ OneAssigned')
           => (graph' = graph /\ vertexIds' = vertexIds /\ dirty' = TRUE
               /\ outcome'.built = "none")]_vars

\* C3 witness: one layer was taken away from a manager that holds a built
\* graph with nodes and edges.
C3_Witness ==
    /\ outcome.op \in SetLayerOps
    /\ OneAssigned
    /\ graph.exists /\ DOMAIN graph.edge # {}
    /\ dirty

\* C4: every operation, failed ones included, leaves the graph either as it was
\* or as the complete build of the sources; never empty or half filled.
C4_NoPartialGraph ==
    [][graph' = graph \/ IsBuildOf(graph', nodeSrc', reachSrc')]_vars

CollaboratorFailed ==
    /\ outcome.op = "refresh"
    /\ messageBar # <<>>
    /\ messageBar # <<"Success", "Success">>

\* C6: a refresh whose collaborator fails reports a warning and still rebuilds
\* the graph from the data at hand; a refresh rebuilds only after both refresh
\* statements have left their message.
C6_RefreshFailureStillRebuilds ==
    /\ (CollaboratorFailed /\ Assigned) =>
          /\ \E i \in DOMAIN messageBar : messageBar[i] = "Warning"
          /\ BuildRan
          /\ IsBuildOf(graph, nodeSrc, reachSrc)
    /\ (outcome.op = "refresh" /\ BuildRan) => Len(messageBar) >= 2

\* n is a node of g that a node record put there (add_edge alone would leave
\* an endpoint without attributes).
IsNode(g, n) == n \in DOMAIN g.node /\ g.node[n] # NoAttrs

\* C7: in every state with a graph, both endpoints of every edge are nodes of
\* the graph.
C7_EdgeEndpointsAreNodes ==
    graph.exists =>
        \A e \in DOMAIN graph.edge : IsNode(graph, e[1]) /\ IsNode(graph, e[2])

\* C7 witness: a refresh rebuilt a graph that has an edge between two
\* different nodes.
C7_Witness ==
    /\ outcome.op = "refresh" /\ outcome.built = "done"
    /\ \E e \in DOMAIN graph.edge : e[1] # e[2]

\* C8: every value of the object-id index is a node of the graph, and after a
\* build the index has one entry per distinct object id of the node records,
\* that of the last record with the id.
C8_IndexValid ==
    /\ \A o \in DOMAIN vertexIds : vertexIds[o] \in DOMAIN graph.node
    /\ (BuildRan /\ nodeLayer # None) => vertexIds = ExpectedIndex(nodeSrc)

\* C9: a build whose reach records include one with an unresolvable endpoint
\* does not raise, leaves that record out, and has a node for every node record
\* and an edge for every reach record that resolves.
C9_UnresolvableEdgeSkipped ==
    (/\ BuildRan /\ Assigned
     /\ \E i \in DOMAIN reachSrc : ~Resolvable(nodeSrc, reachSrc[i])) =>
        /\ outcome.built = "done"
        /\ IsBuildOf(graph, nodeSrc, reachSrc)

\* C10: a build whose node records include one without readable geometry does
\* not abort; that record is a node of the graph and carries no point, in
\* particular not the point of another record.
C10_GeometryFailureKeepsNode ==
    (BuildRan /\ nodeLayer # None) =>
        \A i \in DOMAIN nodeSrc :
            ~nodeSrc[i].hasGeometry =>
                /\ outcome.built # "addVertices raised"
                /\ i \in DOMAIN graph.node
                /\ graph.node[i].point = Unbound

(***************************************************************************)
(* Queries: C11..C15 are stated of the query specification SpecQuery.      *)
(***************************************************************************)
Range(seq) == {seq[i] : i \in DOMAIN seq}

\* graph.reverse(): every edge flipped, attributes kept
Reversed(g) ==
    [g EXCEPT !.edge = [e \in {<<d[2], d[1]>> : d \in DOMAIN g.edge} |->
                            g.edge[<<e[2], e[1]>>]]]

\* The graph a tree query walks.
Traversed(g, reverse) == IF reverse THEN Reversed(g) ELSE g

\* The nodes of g that a directed walk from a node of S reaches, S included.
RECURSIVE ReachableFrom(_, _)
ReachableFrom(g, S) ==
    LET T == S \cup {e[2] : e \in {d \in DOMAIN g.edge : d[1] \in S}}
    IN  IF T = S THEN S ELSE ReachableFrom(g, T)

\* A getTree call on a node of the graph has come back, with or without a result.
TreeAsked == outcome.op = "getTree" /\ args.node \in DOMAIN graph.node

\* C11: getTree on a node of the graph returns predecessor edges in the
\* direction of the stored graph, also when reverse is set: every returned
\* triple (x, y, attrs) is the edge x -> y of the stored graph with its
\* attributes.
C11_TreeEdgesInOriginalDirection ==
    TreeAsked =>
        /\ outcome.status = "ok"
        /\ \A e \in Range(outcome.edges) :
               /\ <<e[1], e[2]>> \in DOMAIN graph.edge
               /\ e[3] = graph.edge[<<e[1], e[2]>>]

\* C12: getTree on a node s of the graph does not raise, for both values of
\* reverse; its nodes are the attribute bundles of exactly the nodes reachable
\* from s in the traversal direction, s included, and its edge list has one
\* predecessor edge for every reached node other than s and none for s.
C12_TreeIsReachableSet ==
    TreeAsked =>
        LET s == args.node
            reached == ReachableFrom(Traversed(graph, args.reverse), {s})
            ends == {IF args.reverse THEN e[1] ELSE e[2] : e \in Range(outcome.edges)}
        IN  /\ outcome.status = "ok"
            /\ Range(outcome.path) = {graph.node[n] : n \in reached}
            /\ ends = reached \ {s}
            /\ Len(outcome.edges) = Cardinality(reached \ {s})

\* A shortestPath call between two nodes of the graph has come back.
PathAsked ==
    /\ outcome.op = "shortestPath"
    /\ args.node \in DOMAIN graph.node
    /\ args.target \in DOMAIN graph.node

\* The directed walks of g from a to b over at most one node more than g has
\* (a walk may pass a node twice), and the total weight of a walk.
Walks(g, a, b) ==
    {w \in UNION {[1..k -> DOMAIN g.node] : k \in 1..(Cardinality(DOMAIN g.node) + 1)} :
        /\ w[1] = a /\ w[Len(w)] = b
        /\ \A i \in 1..(Len(w) - 1) : <<w[i], w[i + 1]>> \in DOMAIN g.edge}

RECURSIVE TotalWeight(_, _)
TotalWeight(g, w) ==
    IF Len(w) < 2 THEN 0
    ELSE g.edge[<<w[1], w[2]>>].weight + TotalWeight(g, Tail(w))

\* The result is a walk from a to b of least total weight, with the triple of
\* each consecutive pair of its nodes, in order, each an edge of the graph.
LeastWeightPath ==
    (PathAsked /\ args.target \in ReachableFrom(graph, {args.node})) =>
        /\ outcome.status = "ok"
        /\ outcome.path \in Walks(graph, args.node, args.target)
        /\ \A w \in Walks(graph, args.node, args.target) :
               TotalWeight(graph, outcome.path) <= TotalWeight(graph, w)
        /\ Len(outcome.edges) = Len(outcome.path) - 1
        /\ \A i \in DOMAIN outcome.edges :
               /\ outcome.edges[i][1] = outcome.path[i]
               /\ outcome.edges[i][2] = outcome.path[i + 1]
               /\ <<outcome.path[i], outcome.path[i + 1]>> \in DOMAIN graph.edge
               /\ outcome.edges[i][3] = graph.edge[<<outcome.path[i], outcome.path[i + 1]>>]

\* The network A -> B (2), A -> C (1), C -> B (1), asked for the path A to B.
ExampleAsked ==
    /\ PathAsked /\ args.node = 1 /\ args.target = 2
    /\ DOMAIN graph.edge = {<<1, 2>>, <<1, 3>>, <<3, 2>>}
    /\ graph.edge[<<1, 2>>].weight = 2
    /\ graph.edge[<<1, 3>>].weight = 1
    /\ graph.edge[<<3, 2>>].weight = 1

\* C13 as stated: for nodes a, b with b reachable from a, shortestPath(a, b)
\* returns a path from a to b of least total weight with one (from, to,
\* attributes) triple per consecutive pair, each an edge of the graph; and on
\* A -> B (2), A -> C (1), C -> B (1) the path returned for (A, B) is [A, C, B].
C13_LeastWeightPathAndExample ==
    /\ LeastWeightPath
    /\ ExampleAsked => outcome.path = <<1, 3, 2>>

\* C13 amended: for nodes a, b with b reachable from a, shortestPath(a, b)
\* returns a path from a to b of least total weight with one (from, to,
\* attributes) triple per consecutive pair, each an edge of the graph; on
\* A -> B (2), A -> C (1), C -> B (1) both [A, B] and [A, C, B] weigh 2, and
\* the path returned for (A, B) is one of the two.
C13_LeastWeightPath ==
    /\ LeastWeightPath
    /\ ExampleAsked => outcome.path \in {<<1, 2>>, <<1, 3, 2>>}

\* A path over two edges was returned although a heavier walk exists.
C13_Witness ==
    /\ PathAsked /\ outcome.status = "ok"
    /\ Len(outcome.path) = 3 /\ Len(outcome.edges) = 2
    /\ \E w \in Walks(graph, args.node, args.target) :
           TotalWeight(graph, w) > TotalWeight(graph, outcome.path)

\* C14: for nodes a, b of the graph without a directed path from a to b,
\* shortestPath(a, b) returns the empty path and the empty edge list and does
\* not raise.
C14_NoPathIsEmptyResult ==
    (PathAsked /\ args.target \notin ReachableFrom(graph, {args.node})) =>
        /\ outcome.status = "ok"
        /\ outcome.path = <<>>
        /\ outcome.edges = <<>>

\* b cannot be reached from a although a has an edge to another node and b
\* an edge to a.
C14_Witness ==
    /\ PathAsked /\ outcome.status = "ok"
    /\ args.target \notin ReachableFrom(graph, {args.node})
    /\ \E e \in DOMAIN graph.edge : e[1] = args.node /\ e[2] # args.node
    /\ <<args.target, args.node>> \in DOMAIN graph.edge

\* C15: for a node a of the graph, shortestPath(a, a) returns the path [a] and
\* no edge, also when the graph has the self-loop a -> a.
C15_PathToItself ==
    (PathAsked /\ args.node = args.target) =>
        /\ outcome.status = "ok"
        /\ outcome.path = <<args.node>>
        /\ outcome.edges = <<>>

\* The path from a node to itself was asked and the node has a self-loop.
C15_Witness ==
    /\ PathAsked /\ outcome.status = "ok"
    /\ args.node = args.target
    /\ <<args.node, args.node>> \in DOMAIN graph.edge

(***************************************************************************)
(* The build again: C16, C17 and C20 are stated of Spec.                   *)
(***************************************************************************)

\* C16: a build that follows a build, with the same layers assigned and the
\* content of both views unchanged (a query after a failed build, a refresh
\* that changed nothing, a layer assigned again), yields the same nodes, the
\* same edges with the same attributes and the same object-id index.
C16_RebuildIdempotent ==
    [][(/\ BuildRan /\ BuildRan'
        /\ nodeSrc' = nodeSrc /\ reachSrc' = reachSrc
        /\ nodeLayer' = nodeLayer /\ reachLayer' = reachLayer) =>
           /\ graph' = graph
           /\ vertexIds' = vertexIds]_vars

\* A refresh has rebuilt, completely, a graph that a build before it made, and
\* the graph has an edge between two nodes.
C16_Witness ==
    /\ outcome.op = "refresh" /\ outcome.built = "done"
    /\ Cardinality(DOMAIN vertexIds) > 1
    /\ \E e \in DOMAIN graph.edge : e[1] # e[2]

\* Every node record has a geometry, and every reach record two endpoints
\* that are object ids of node records.
WellFormedSources ==
    /\ \A i \in DOMAIN nodeSrc : nodeSrc[i].hasGeometry
    /\ \A i \in DOMAIN reachSrc : Resolvable(nodeSrc, reachSrc[i])

\* The (from, to) pair that reach record i resolves to, and the last record
\* that resolves to the pair e.
PairOf(i) ==
    <<LastWith(nodeSrc, reachSrc[i].from_obj_id), LastWith(nodeSrc, reachSrc[i].to_obj_id)>>

LastRecordOf(e) ==
    CHOOSE i \in DOMAIN reachSrc :
        PairOf(i) = e /\ \A j \in DOMAIN reachSrc : PairOf(j) = e => j <= i

\* C17: a build from N node records with geometry and M reach records whose
\* endpoints all resolve completes with exactly the N records as nodes and
\* one edge per (from, to) pair the reach records resolve to, a self-loop when
\* from and to are the same node; each edge carries the attributes of the
\* last record that resolves to its pair.
C17_NodeAndEdgeCounts ==
    (BuildRan /\ Assigned /\ WellFormedSources) =>
        /\ outcome.built = "done"
        /\ DOMAIN graph.node = DOMAIN nodeSrc
        /\ Cardinality(DOMAIN graph.node) = Len(nodeSrc)
        /\ DOMAIN graph.edge = {PairOf(i) : i \in DOMAIN reachSrc}
        /\ \A e \in DOMAIN graph.edge :
               LET i == LastRecordOf(e)
               IN  graph.edge[e] = [weight |-> reachSrc[i].length_calc, feature |-> i,
                                    baseFeature |-> reachSrc[i].obj_id,
                                    objType |-> reachSrc[i].type]

\* A build of two node records and two reach records that resolve to the same
\* pair, which is a self-loop.
C17_Witness ==
    /\ BuildRan /\ Assigned /\ WellFormedSources
    /\ Len(nodeSrc) = 2 /\ Len(reachSrc) = 2
    /\ PairOf(1) = PairOf(2)
    /\ PairOf(1)[1] = PairOf(1)[2]

\* C20: whenever the dirty flag is clear, the node layer and the reach layer
\* are both assigned and the graph is an instance, not None.
C20_FreshHasLayersAndGraph ==
    ~dirty => (nodeLayer # None /\ reachLayer # None /\ graph.exists)

\* The flag is clear after a query that found the graph fresh.
C20_Witness ==
    /\ ~dirty
    /\ outcome.op \in QueryOps /\ outcome.built = "none"
    /\ DOMAIN graph.node # {}

(***************************************************************************)
(* The feature cache: C18 and C19 are stated of SpecCache.                 *)
(***************************************************************************)

\* The number a field holds: a float, or text that is a number.
IsNumber(v) == v.type = "float" \/ (v.type = "str" /\ v.repr \in DOMAIN ParseFloat)
NumberOf(v) == IF v.type = "float" THEN v ELSE PyValue("float", ParseFloat[v.repr])

\* C18: attrAsFloat does not raise; it returns the number of the field when
\* the field holds one, and None when the field is NULL, when the name is no
\* field, when the value has a type that is no number and when it is text
\* that is no number.
C18_AttrAsFloatNeverRaises ==
    outcome.op = "attrAsFloat" =>
        /\ outcome.status = "ok"
        /\ outcome.value =
               IF /\ args.attr \in DOMAIN args.feat.fields
                  /\ IsNumber(args.feat.fields[args.attr])
               THEN NumberOf(args.feat.fields[args.attr])
               ELSE PyNone

\* The object id of a feature as the cache reads it.
ObjIdOf(feat) == IF feat.fields[objIdField] = NULL THEN PyNone ELSE feat.fields[objIdField]

\* C19: asObjIdDict returns the dictionary that featureByObjId reads, whose
\* keys are the object ids of the features added and whose values are the
\* features; asDict returns the dictionary keyed by the features' ids.
C19_ObjIdDictKeyedByObjId ==
    /\ outcome.op = "asObjIdDict" =>
           /\ outcome.value = cache.featuresByObjId
           /\ \A k \in DOMAIN outcome.value : ObjIdOf(outcome.value[k]) = k
    /\ outcome.op = "asDict" =>
           /\ outcome.value = cache.featuresById
           /\ \A k \in DOMAIN outcome.value : outcome.value[k].id = k

====
